---- MODULE Spec2Model ----
(***************************************************************************)
(* Bike rental demo (Vsc_task/script1.py): an in-memory BikeRepository, a  *)
(* Bike entity with three variants, and BikeRentalService instances that   *)
(* share one repository and differ in the notifier injected into them.     *)
(*                                                                         *)
(* Python objects live on a heap (objs); the repository's dict _bikes maps *)
(* a key to a reference into that heap, so that a mutation of a Bike is    *)
(* seen through every reference to it.  A reference is the uuid of the     *)
(* object it points to; an object no reference points to is collected.     *)
(*                                                                         *)
(* uuid.uuid4() is modelled as a generator of fresh values: its k-th draw  *)
(* is the value k.                                                         *)
(*                                                                         *)
(* Optional values: None is the empty tuple, a present value v is <<v>>.   *)
(* Floats are exact rationals [num, den].                                  *)
(***************************************************************************)
EXTENDS Integers, Sequences, FiniteSets, TLC

VARIABLES
    _bikes,     \* BikeRepository._bikes: key -> reference to a Bike
    objs,       \* the heap: reference -> Bike object (its attributes)
    uuids,      \* the number of values drawn from uuid.uuid4() so far
    clock,      \* the wall clock read by datetime.now(), in seconds
    lastOp,     \* the last call made by the caller and everything it observed
    returned,   \* history: the identifiers add_bike has returned so far
    hist,       \* history kept for the properties (constant where unused)
    call,       \* the frame of a rent_bike or return_bike call in progress
    main        \* the frame of main()

vars == <<_bikes, objs, uuids, clock, lastOp, returned, hist, call, main>>

----------------------------------------------------------------------------
(* Bounds of the model *)

\* number of uuids the generator can hand out in one run
MaxBikes == 2

\* the clock stops advancing after this many hours
MaxHours == 2

\* number of bikes added where only the repository is exercised (SpecStore)
MaxAdds == 3

----------------------------------------------------------------------------
(* Values *)

None == <<>>

Some(v) == <<v>>

\* Python truthiness of an Optional[datetime]: None is falsy, a datetime is
\* always truthy
Truthy(v) == v # None

Uuids == 1 .. MaxBikes

\* identifiers a caller may pass: every uuid, issued or not
BikeIds == Uuids

CustomerIds == {"customer_123", "customer_456"}

\* dict keys of bike_data
DataKeys == {"type", "model", "price_per_hour", "battery_capacity"}

TypeTags == {"mountain", "road", "electric", "water bike"}

Models == {"Trek Marlin"}

Prices == {10}

BatteryCapacities == {500}

SecondsPerHour == 3600

\* amounts by which the wall clock advances between two calls
TickSteps == {SecondsPerHour}

MaxClock == MaxHours * SecondsPerHour

\* class BikeStatus
AVAILABLE == "available"

RENTED == "rented"

MAINTENANCE == "maintenance"

BikeStatus == {AVAILABLE, RENTED, MAINTENANCE}

\* the notifier classes a BikeRentalService can be constructed with
EmailNotificationService == "EmailNotificationService"

SMSNotificationService == "SMSNotificationService"

NotificationServices == {EmailNotificationService, SMSNotificationService}

\* exceptions
NoError == "none"

ValueError == "ValueError: Unknown bike type"

KeyError == "KeyError"

----------------------------------------------------------------------------
(* Rationals standing for floats *)

Rat(n, d) == [num |-> n, den |-> d]

Zero == Rat(0, 1)

\* f"{cost:.2f}": the cost in cents, rounded to the nearest cent
Format2f(c) == (2 * 100 * c.num + c.den) \div (2 * c.den)

----------------------------------------------------------------------------
(* class Bike and its subclasses *)

\* Bike.__init__: uuid is the value drawn from uuid.uuid4()
Bike(class, uuid, model, price_per_hour) ==
    [class |-> class, id |-> uuid, model |-> model,
     price_per_hour |-> price_per_hour,
     status |-> AVAILABLE, rental_start_time |-> None]

MountainBike(uuid, model, price_per_hour) ==
    Bike("MountainBike", uuid, model, price_per_hour)

RoadBike(uuid, model, price_per_hour) ==
    Bike("RoadBike", uuid, model, price_per_hour)

\* ElectricBike.__init__
ElectricBike(uuid, model, price_per_hour, battery_capacity) ==
    [b \in {"battery_capacity"} |-> battery_capacity]
        @@ Bike("ElectricBike", uuid, model, price_per_hour)

\* an availability test that only excludes bikes under maintenance
is_available_unless_maintenance(b) == b.status # MAINTENANCE

\* Bike.is_available
is_available(b) == b.status = AVAILABLE

\* a rent that forgets to record the start time
rent_without_start_time(b, start_time) ==
    IF is_available(b)
    THEN [ret |-> TRUE, self |-> [b EXCEPT !.status = RENTED]]
    ELSE [ret |-> FALSE, self |-> b]

\* a rent that does not look at the status
rent_unchecked(b, start_time) ==
    [ret |-> TRUE,
     self |-> [b EXCEPT !.status = RENTED,
                        !.rental_start_time = Some(start_time)]]

\* Bike.rent: the result and the object afterwards
rent(b, start_time) ==
    IF is_available(b)
    THEN [ret |-> TRUE,
          self |-> [b EXCEPT !.status = RENTED,
                             !.rental_start_time = Some(start_time)]]
    ELSE [ret |-> FALSE, self |-> b]

\* a cost that takes the elapsed seconds for minutes
RentalCost_per_minute(start_time, now, price_per_hour) ==
    Rat((now - start_time) * price_per_hour, 60)

\* hours_rented * price_per_hour of Bike.return_bike
RentalCost(start_time, now, price_per_hour) ==
    Rat((now - start_time) * price_per_hour, SecondsPerHour)

\* a return that leaves the start time in place
return_bike_keeps_start_time(b, now) ==
    IF b.status = RENTED /\ Truthy(b.rental_start_time)
    THEN [ret |-> RentalCost(b.rental_start_time[1], now, b.price_per_hour),
          self |-> [b EXCEPT !.status = AVAILABLE]]
    ELSE [ret |-> Zero, self |-> b]

\* a return that sends the bike to maintenance
return_bike_to_maintenance(b, now) ==
    IF b.status = RENTED /\ Truthy(b.rental_start_time)
    THEN [ret |-> RentalCost(b.rental_start_time[1], now, b.price_per_hour),
          self |-> [b EXCEPT !.status = MAINTENANCE,
                             !.rental_start_time = None]]
    ELSE [ret |-> Zero, self |-> b]

\* a return that builds the returned bike anew, as a plain Bike
return_bike_rebuilds(b, now) ==
    IF b.status = RENTED /\ Truthy(b.rental_start_time)
    THEN [ret |-> RentalCost(b.rental_start_time[1], now, b.price_per_hour),
          self |-> Bike(b.class, b.id, b.model, b.price_per_hour)]
    ELSE [ret |-> Zero, self |-> b]

\* Bike.return_bike: the cost returned and the object afterwards
return_bike(b, now) ==
    IF b.status = RENTED /\ Truthy(b.rental_start_time)
    THEN [ret |-> RentalCost(b.rental_start_time[1], now, b.price_per_hour),
          self |-> [b EXCEPT !.status = AVAILABLE,
                             !.rental_start_time = None]]
    ELSE [ret |-> Zero, self |-> b]

----------------------------------------------------------------------------
(* class BikeRepository *)

\* a save that replaces the dict by one holding the saved bike alone
save_only(bikes, ref, key) == (key :> ref)

\* BikeRepository.save: the dict afterwards
save(bikes, ref, key) == (key :> ref) @@ bikes

\* BikeRepository.find_by_id: a reference, or None
find_by_id(bikes, bike_id) ==
    IF bike_id \in DOMAIN bikes THEN Some(bikes[bike_id]) ELSE None

\* the elements of a set of numbers in ascending order
RECURSIVE Ascending(_)
Ascending(S) ==
    IF S = {} THEN <<>>
    ELSE LET m == CHOOSE x \in S : \A y \in S : x <= y
         IN  <<m>> \o Ascending(S \ {m})

\* the keys of the dict in insertion order: a key enters the dict when
\* add_bike saves the bike it has just constructed, so keys enter in the
\* order their uuids were drawn; a later save of the same key keeps its place
Keys(bikes) == Ascending(DOMAIN bikes)

\* BikeRepository.find_all: list(self._bikes.values())
find_all(bikes, heap) ==
    [i \in 1 .. Len(Keys(bikes)) |-> heap[bikes[Keys(bikes)[i]]]]

\* dict.pop(bike_id, None) of BikeRepository.delete: the dict afterwards
Pop(bikes, bike_id) == [k \in DOMAIN bikes \ {bike_id} |-> bikes[k]]

----------------------------------------------------------------------------
(* What a call reports to its caller *)

\* a notification that always goes out by email
Notification_by_email(service, customer_id, bike_id) ==
    [service |-> EmailNotificationService, customer_id |-> customer_id,
     bike_id |-> bike_id]

\* a rental notification printed by a notifier
Notification(service, customer_id, bike_id) ==
    [service |-> service, customer_id |-> customer_id, bike_id |-> bike_id]

\* the call, its arguments, the boolean returned (ret) or the identifier
\* returned (ret_id, by add_bike), the exception raised, the notifications
\* sent, the cost returned by Bike.return_bike and the cents printed for it
Report(op, service, bike_id, customer_id, bike_data, ret, ret_id, raised, notifications, cost, printed) ==
    [op |-> op, service |-> service, bike_id |-> bike_id,
     customer_id |-> customer_id, bike_data |-> bike_data,
     ret |-> ret, ret_id |-> ret_id, raised |-> raised,
     notifications |-> notifications, cost |-> cost, printed |-> printed]

----------------------------------------------------------------------------
(* class BikeRentalService; service is the notifier injected into it *)

\* a dict with the keys in keys
BikeData(keys, type, model, price_per_hour, battery_capacity) ==
    [k \in keys |->
        CASE k = "type" -> Some(type)
          [] k = "model" -> Some(model)
          [] k = "price_per_hour" -> Some(price_per_hour)
          [] k = "battery_capacity" -> Some(battery_capacity)]

\* a type tag that falls back to the default when it names no variant
BikeType_fallback(bike_data) ==
    IF "type" \in DOMAIN bike_data
       /\ bike_data["type"][1] \in {"mountain", "road", "electric"}
    THEN bike_data["type"][1]
    ELSE "mountain"

\* a type tag without default
BikeType_no_default(bike_data) ==
    IF "type" \in DOMAIN bike_data THEN bike_data["type"][1] ELSE "None"

\* bike_data.get('type', 'mountain')
BikeType(bike_data) ==
    IF "type" \in DOMAIN bike_data THEN bike_data["type"][1] ELSE "mountain"

\* the keys add_bike subscripts for a bike type, in the order it reads them
RequiredKeys(bike_type) ==
    CASE bike_type = "mountain" -> <<"model", "price_per_hour">>
      [] bike_type = "road" -> <<"model", "price_per_hour">>
      [] bike_type = "electric" ->
            <<"model", "price_per_hour", "battery_capacity">>
      [] OTHER -> <<>>

\* the exception add_bike raises before it constructs anything, or NoError
AddBikeError(bike_data) ==
    LET bike_type == BikeType(bike_data) IN
    IF bike_type \notin {"mountain", "road", "electric"} THEN ValueError
    ELSE IF \E i \in DOMAIN RequiredKeys(bike_type) :
               RequiredKeys(bike_type)[i] \notin DOMAIN bike_data
         THEN KeyError
         ELSE NoError

\* a chain whose road branch constructs a MountainBike
NewBike_road_as_mountain(bike_data, uuid) ==
    LET bike_type == BikeType(bike_data)
        model == bike_data["model"][1]
        price == bike_data["price_per_hour"][1]
    IN  CASE bike_type = "mountain" -> MountainBike(uuid, model, price)
          [] bike_type = "road" -> MountainBike(uuid, model, price)
          [] bike_type = "electric" ->
                ElectricBike(uuid, model, price,
                             bike_data["battery_capacity"][1])

\* the if/elif chain of add_bike: the object constructed
NewBike(bike_data, uuid) ==
    LET bike_type == BikeType(bike_data)
        model == bike_data["model"][1]
        price == bike_data["price_per_hour"][1]
    IN  CASE bike_type = "mountain" -> MountainBike(uuid, model, price)
          [] bike_type = "road" -> RoadBike(uuid, model, price)
          [] bike_type = "electric" ->
                ElectricBike(uuid, model, price,
                             bike_data["battery_capacity"][1])

\* uuid.uuid4(): the value of the next draw
uuid4(drawn) == drawn + 1

\* BikeRentalService.add_bike (it does not touch the notifier)
add_bike(bike_data) ==
    IF AddBikeError(bike_data) # NoError
    THEN /\ lastOp' = Report("add_bike", "", 0, "", bike_data, None, None,
                             AddBikeError(bike_data), <<>>, None, None)
         /\ UNCHANGED <<_bikes, objs, uuids, clock, returned>>
    ELSE LET bike == NewBike(bike_data, uuid4(uuids)) IN
         /\ uuids' = uuids + 1
         /\ objs' = (bike.id :> bike) @@ objs
         /\ _bikes' = save(_bikes, bike.id, bike.id)
         /\ lastOp' = Report("add_bike", "", 0, "", bike_data, None,
                             Some(bike.id), NoError, <<>>, None, None)
         /\ returned' = returned \cup {bike.id}
         /\ UNCHANGED clock

\* a rent_bike that notifies before it looks at the bike
rent_bike_notifies_first(service, bike_id, customer_id) ==
    LET bike == find_by_id(_bikes, bike_id) IN
    IF bike # None /\ rent(objs[bike[1]], clock).ret
    THEN LET self == rent(objs[bike[1]], clock).self IN
         /\ objs' = [objs EXCEPT ![bike[1]] = self]
         /\ _bikes' = save(_bikes, bike[1], self.id)
         /\ lastOp' = Report("rent_bike", service, bike_id, customer_id, <<>>,
                             Some(TRUE), None, NoError,
                             <<Notification(service, customer_id, bike_id)>>,
                             None, None)
         /\ UNCHANGED <<uuids, clock, returned>>
    ELSE /\ lastOp' = Report("rent_bike", service, bike_id, customer_id, <<>>,
                             Some(FALSE), None, NoError,
                             <<Notification(service, customer_id, bike_id)>>,
                             None, None)
         /\ UNCHANGED <<_bikes, objs, uuids, clock, returned>>

\* BikeRentalService.rent_bike
rent_bike(service, bike_id, customer_id) ==
    LET bike == find_by_id(_bikes, bike_id) IN
    IF bike # None /\ rent(objs[bike[1]], clock).ret
    THEN LET self == rent(objs[bike[1]], clock).self IN
         /\ objs' = [objs EXCEPT ![bike[1]] = self]
         /\ _bikes' = save(_bikes, bike[1], self.id)
         /\ lastOp' = Report("rent_bike", service, bike_id, customer_id, <<>>,
                             Some(TRUE), None, NoError,
                             <<Notification(service, customer_id, bike_id)>>,
                             None, None)
         /\ UNCHANGED <<uuids, clock, returned>>
    ELSE /\ lastOp' = Report("rent_bike", service, bike_id, customer_id, <<>>,
                             Some(FALSE), None, NoError, <<>>, None, None)
         /\ UNCHANGED <<_bikes, objs, uuids, clock, returned>>

\* a return_bike that returns whether a cost was charged
service_return_bike_true_if_charged(service, bike_id) ==
    LET bike == find_by_id(_bikes, bike_id) IN
    IF bike # None
    THEN LET r == return_bike(objs[bike[1]], clock) IN
         /\ objs' = [objs EXCEPT ![bike[1]] = r.self]
         /\ _bikes' = save(_bikes, bike[1], r.self.id)
         /\ lastOp' = Report("return_bike", service, bike_id, "", <<>>,
                             Some(r.ret.num > 0), None, NoError, <<>>,
                             Some(r.ret), Some(Format2f(r.ret)))
         /\ UNCHANGED <<uuids, clock, returned>>
    ELSE /\ lastOp' = Report("return_bike", service, bike_id, "", <<>>,
                             Some(FALSE), None, NoError, <<>>, None, None)
         /\ UNCHANGED <<_bikes, objs, uuids, clock, returned>>

\* BikeRentalService.return_bike (named after the service: Bike.return_bike
\* holds the name return_bike)
service_return_bike(service, bike_id) ==
    LET bike == find_by_id(_bikes, bike_id) IN
    IF bike # None
    THEN LET r == return_bike(objs[bike[1]], clock) IN
         /\ objs' = [objs EXCEPT ![bike[1]] = r.self]
         /\ _bikes' = save(_bikes, bike[1], r.self.id)
         /\ lastOp' = Report("return_bike", service, bike_id, "", <<>>,
                             Some(TRUE), None, NoError, <<>>,
                             Some(r.ret), Some(Format2f(r.ret)))
         /\ UNCHANGED <<uuids, clock, returned>>
    ELSE /\ lastOp' = Report("return_bike", service, bike_id, "", <<>>,
                             Some(FALSE), None, NoError, <<>>, None, None)
         /\ UNCHANGED <<_bikes, objs, uuids, clock, returned>>

\* the objects of heap that a value of the dict bikes refers to
Collect(heap, bikes) ==
    [ref \in {bikes[k] : k \in DOMAIN bikes} |-> heap[ref]]

\* a delete that looks for the key after it has popped it
delete_checks_after_pop(bike_id) ==
    /\ _bikes' = Pop(_bikes, bike_id)
    /\ objs' = Collect(objs, _bikes')
    /\ lastOp' = Report("delete", "", bike_id, "", <<>>,
                        Some(find_by_id(_bikes', bike_id) # None), None, NoError,
                        <<>>, None, None)
    /\ UNCHANGED <<uuids, clock, returned>>

\* a delete that refuses to remove a rented bike
delete_unless_rented(bike_id) ==
    IF bike_id \in DOMAIN _bikes /\ objs[_bikes[bike_id]].status = RENTED
    THEN /\ lastOp' = Report("delete", "", bike_id, "", <<>>,
                             Some(FALSE), None, NoError, <<>>, None, None)
         /\ UNCHANGED <<_bikes, objs, uuids, clock, returned>>
    ELSE /\ _bikes' = Pop(_bikes, bike_id)
         /\ objs' = Collect(objs, _bikes')
         /\ lastOp' = Report("delete", "", bike_id, "", <<>>,
                             Some(find_by_id(_bikes, bike_id) # None), None,
                             NoError, <<>>, None, None)
         /\ UNCHANGED <<uuids, clock, returned>>

\* BikeRepository.delete, called on the repository
delete(bike_id) ==
    /\ _bikes' = Pop(_bikes, bike_id)
    /\ objs' = Collect(objs, _bikes')
    /\ lastOp' = Report("delete", "", bike_id, "", <<>>,
                        Some(find_by_id(_bikes, bike_id) # None), None, NoError,
                        <<>>, None, None)
    /\ UNCHANGED <<uuids, clock, returned>>

----------------------------------------------------------------------------
(* The program: a caller making any sequence of calls *)

\* the history before the first call:
\*   live       the identifiers added and not deleted since
\*   renter     for each identifier with a notification sent and no
\*              return_bike that performed the Rented -> Available
\*              transition since, the notifier that sent it
\*   unmatched  the number of notifications sent minus the number of
\*              rent_bike calls that returned True
\*   notified   the identifiers a notification was ever sent for
\*   again      a notification was sent for an identifier in notified
NoHistory ==
    [live |-> {}, renter |-> <<>>, unmatched |-> 0, notified |-> {},
     again |-> FALSE]

\* no call is in progress: the frame of a call holds the statement to run
\* next (pc, the source line), the arguments, the local variable bike (a
\* reference or None), the value of datetime.now() passed to Bike.rent, the
\* local variable cost, the notifications sent so far and, for the
\* properties, the attributes the bike had when it was looked up
NoCall ==
    [pc |-> "idle", service |-> "", bike_id |-> 0, customer_id |-> "",
     bike |-> None, now |-> None, cost |-> None, printed |-> None,
     sent |-> <<>>, before |-> None]

\* main() is not running
NoMain == [pc |-> "none", bikes_data |-> <<>>, bike_ids |-> <<>>, out |-> <<>>]

Init ==
    /\ _bikes = <<>>
    /\ objs = <<>>
    /\ uuids = 0
    /\ clock = 0
    /\ returned = {}
    /\ hist = NoHistory
    /\ call = NoCall
    /\ main = NoMain
    /\ lastOp = Report("init", "", 0, "", <<>>, None, None, NoError,
                       <<>>, None, None)

\* time passes between two calls
Tick ==
    /\ \E d \in TickSteps :
          /\ clock + d <= MaxClock
          /\ clock' = clock + d
    /\ UNCHANGED <<_bikes, objs, uuids, lastOp, returned, hist, call, main>>

\* the dicts a caller passes to add_bike
BikeDatas ==
    {BikeData(keys, type, model, price_per_hour, battery_capacity) :
        keys \in SUBSET DataKeys, type \in TypeTags, model \in Models,
        price_per_hour \in Prices, battery_capacity \in BatteryCapacities}

\* the generator has a value left for the bike that add_bike would construct
CanAdd(bike_data, max) == (AddBikeError(bike_data) = NoError) => (uuids < max)

AddBike ==
    /\ \E bike_data \in BikeDatas :
          CanAdd(bike_data, MaxBikes) /\ add_bike(bike_data)
    /\ UNCHANGED <<hist, call, main>>

RentBike ==
    /\ \E service \in NotificationServices, bike_id \in BikeIds,
          customer_id \in CustomerIds :
           rent_bike(service, bike_id, customer_id)
    /\ UNCHANGED <<hist, call, main>>

ReturnBike ==
    /\ \E service \in NotificationServices, bike_id \in BikeIds :
          service_return_bike(service, bike_id)
    /\ UNCHANGED <<hist, call, main>>

Delete ==
    /\ \E bike_id \in BikeIds : delete(bike_id)
    /\ UNCHANGED <<hist, call, main>>

Next ==
    \/ AddBike
    \/ RentBike
    \/ ReturnBike
    \/ Delete
    \/ Tick

Spec == Init /\ [][Next]_vars

----------------------------------------------------------------------------
(* The repository under additions and deletions alone, with the history of *)
(* what was added and not deleted since                                    *)

StoreAdd ==
    /\ \E bike_data \in BikeDatas :
          CanAdd(bike_data, MaxAdds) /\ add_bike(bike_data)
    /\ hist' = [hist EXCEPT !.live = IF lastOp'.ret_id = None THEN @
                                     ELSE @ \cup {lastOp'.ret_id[1]}]
    /\ UNCHANGED <<call, main>>

StoreDelete ==
    \E bike_id \in 1 .. MaxAdds :
        /\ delete(bike_id)
        /\ hist' = [hist EXCEPT !.live = @ \ {bike_id}]
        /\ UNCHANGED <<call, main>>

NextStore ==
    \/ StoreAdd
    \/ StoreDelete

SpecStore == Init /\ [][NextStore]_vars

----------------------------------------------------------------------------
(* Two services over one repository, with the history of the notifications *)
(* sent; no time passes                                                    *)

\* the dicts passed to add_bike here: complete data for a mountain and an
\* electric bike, and the unknown tag of main()
HistDatas ==
    {d \in BikeDatas :
        /\ DOMAIN d = DataKeys
        /\ d["type"][1] \in {"mountain", "electric", "water bike"}}

\* the history after the call that has just been made
Track ==
    LET sent == lastOp'.notifications
        ids == {sent[i].bike_id : i \in DOMAIN sent}
        closed == {k \in DOMAIN _bikes \cap DOMAIN _bikes' :
                      /\ lastOp'.op = "return_bike"
                      /\ lastOp'.bike_id = k
                      /\ objs[_bikes[k]].status = RENTED
                      /\ objs'[_bikes'[k]].status = AVAILABLE}
        of(k) == (CHOOSE i \in DOMAIN sent : sent[i].bike_id = k)
    IN  hist' =
          [live |-> hist.live,
           renter |-> [k \in (DOMAIN hist.renter \ closed) \cup ids |->
                         IF k \in ids THEN sent[of(k)].service
                                      ELSE hist.renter[k]],
           unmatched |-> hist.unmatched + Len(sent)
                           - (IF lastOp'.op = "rent_bike"
                                 /\ lastOp'.ret = Some(TRUE) THEN 1 ELSE 0),
           notified |-> hist.notified \cup ids,
           again |-> hist.again \/ (ids \cap hist.notified # {})]

HistAdd ==
    /\ \E bike_data \in HistDatas :
          CanAdd(bike_data, MaxBikes) /\ add_bike(bike_data)
    /\ Track
    /\ UNCHANGED <<call, main>>

HistRent ==
    /\ \E service \in NotificationServices, bike_id \in BikeIds :
          rent_bike(service, bike_id, "customer_123")
    /\ Track
    /\ UNCHANGED <<call, main>>

HistReturn ==
    /\ \E service \in NotificationServices, bike_id \in BikeIds :
          service_return_bike(service, bike_id)
    /\ Track
    /\ UNCHANGED <<call, main>>

HistDelete ==
    /\ \E bike_id \in BikeIds : delete(bike_id)
    /\ Track
    /\ UNCHANGED <<call, main>>

NextHist ==
    \/ HistAdd
    \/ HistRent
    \/ HistReturn
    \/ HistDelete

SpecHist == Init /\ [][NextHist]_vars

----------------------------------------------------------------------------
(* rent_bike and return_bike statement by statement. The local variable bike
   holds what find_by_id returned: a reference to the object that the
   repository's dict refers to, or None *)

\* the attributes of the object behind the reference bike, None for None
Attributes(bike) == IF bike = None THEN None ELSE Some(objs[bike[1]])

StepsAdd ==
    /\ call.pc = "idle"
    /\ \E bike_data \in HistDatas :
          CanAdd(bike_data, MaxBikes) /\ add_bike(bike_data)
    /\ UNCHANGED <<hist, call, main>>

\* rent_bike is called and runs bike = self.repository.find_by_id(bike_id)
RentBike_find_by_id ==
    /\ call.pc = "idle"
    /\ \E service \in NotificationServices, bike_id \in BikeIds,
          customer_id \in CustomerIds :
          LET bike == find_by_id(_bikes, bike_id) IN
          call' = [NoCall EXCEPT !.pc = "rent_bike:183",
                                 !.service = service,
                                 !.bike_id = bike_id,
                                 !.customer_id = customer_id,
                                 !.bike = bike,
                                 !.before = Attributes(bike)]
    /\ UNCHANGED <<_bikes, objs, uuids, clock, lastOp, returned, hist, main>>

\* a condition that rents a copy of the object and leaves the object alone
RentBike_rent_a_copy ==
    /\ call.pc = "rent_bike:183"
    /\ IF call.bike # None /\ rent(objs[call.bike[1]], clock).ret
       THEN /\ call' = [call EXCEPT !.pc = "rent_bike:184",
                                    !.now = Some(clock)]
            /\ UNCHANGED <<objs, lastOp>>
       ELSE /\ lastOp' = Report("rent_bike", call.service, call.bike_id,
                                call.customer_id, <<>>, Some(FALSE), None,
                                NoError, <<>>, None, None)
            /\ call' = NoCall
            /\ UNCHANGED objs
    /\ UNCHANGED <<_bikes, uuids, clock, returned, hist, main>>

\* if bike and bike.rent(datetime.now()): Bike.rent assigns to the attributes
\* of the object bike refers to; where the condition is false the call
\* returns False
RentBike_rent ==
    /\ call.pc = "rent_bike:183"
    /\ IF call.bike # None /\ rent(objs[call.bike[1]], clock).ret
       THEN /\ objs' = [objs EXCEPT ![call.bike[1]] = rent(@, clock).self]
            /\ call' = [call EXCEPT !.pc = "rent_bike:184",
                                    !.now = Some(clock)]
            /\ UNCHANGED lastOp
       ELSE /\ lastOp' = Report("rent_bike", call.service, call.bike_id,
                                call.customer_id, <<>>, Some(FALSE), None,
                                NoError, <<>>, None, None)
            /\ call' = NoCall
            /\ UNCHANGED objs
    /\ UNCHANGED <<_bikes, uuids, clock, returned, hist, main>>

\* self.notification_service.send_notification(customer_id, ...)
RentBike_send_notification ==
    /\ call.pc = "rent_bike:184"
    /\ call' = [call EXCEPT !.pc = "rent_bike:185",
                            !.sent = Append(@, Notification(call.service,
                                                            call.customer_id,
                                                            call.bike_id))]
    /\ UNCHANGED <<_bikes, objs, uuids, clock, lastOp, returned, hist, main>>

\* self.repository.save(bike)
RentBike_save ==
    /\ call.pc = "rent_bike:185"
    /\ _bikes' = save(_bikes, call.bike[1], objs[call.bike[1]].id)
    /\ call' = [call EXCEPT !.pc = "rent_bike:186"]
    /\ UNCHANGED <<objs, uuids, clock, lastOp, returned, hist, main>>

\* return True
RentBike_return ==
    /\ call.pc = "rent_bike:186"
    /\ lastOp' = Report("rent_bike", call.service, call.bike_id,
                        call.customer_id, <<>>, Some(TRUE), None, NoError,
                        call.sent, None, None)
    /\ call' = NoCall
    /\ UNCHANGED <<_bikes, objs, uuids, clock, returned, hist, main>>

\* return_bike is called and runs bike = self.repository.find_by_id(bike_id)
ReturnBike_find_by_id ==
    /\ call.pc = "idle"
    /\ \E service \in NotificationServices, bike_id \in BikeIds :
          LET bike == find_by_id(_bikes, bike_id) IN
          call' = [NoCall EXCEPT !.pc = "return_bike:191",
                                 !.service = service,
                                 !.bike_id = bike_id,
                                 !.bike = bike,
                                 !.before = Attributes(bike)]
    /\ UNCHANGED <<_bikes, objs, uuids, clock, lastOp, returned, hist, main>>

\* if bike: cost = bike.return_bike(); Bike.return_bike assigns to the
\* attributes of the object bike refers to; without a bike the call returns
\* False
ReturnBike_return_bike ==
    /\ call.pc = "return_bike:191"
    /\ IF call.bike # None
       THEN LET r == return_bike(objs[call.bike[1]], clock) IN
            /\ objs' = [objs EXCEPT ![call.bike[1]] = r.self]
            /\ call' = [call EXCEPT !.pc = "return_bike:193",
                                    !.now = Some(clock),
                                    !.cost = Some(r.ret)]
            /\ UNCHANGED lastOp
       ELSE /\ lastOp' = Report("return_bike", call.service, call.bike_id,
                                "", <<>>, Some(FALSE), None, NoError, <<>>,
                                None, None)
            /\ call' = NoCall
            /\ UNCHANGED objs
    /\ UNCHANGED <<_bikes, uuids, clock, returned, hist, main>>

\* self.repository.save(bike)
ReturnBike_save ==
    /\ call.pc = "return_bike:193"
    /\ _bikes' = save(_bikes, call.bike[1], objs[call.bike[1]].id)
    /\ call' = [call EXCEPT !.pc = "return_bike:194"]
    /\ UNCHANGED <<objs, uuids, clock, lastOp, returned, hist, main>>

\* print(f"Bike returned. Cost: ${cost:.2f}")
ReturnBike_print ==
    /\ call.pc = "return_bike:194"
    /\ call' = [call EXCEPT !.pc = "return_bike:195",
                            !.printed = Some(Format2f(call.cost[1]))]
    /\ UNCHANGED <<_bikes, objs, uuids, clock, lastOp, returned, hist, main>>

\* return True
ReturnBike_return ==
    /\ call.pc = "return_bike:195"
    /\ lastOp' = Report("return_bike", call.service, call.bike_id, "", <<>>,
                        Some(TRUE), None, NoError, <<>>, call.cost,
                        call.printed)
    /\ call' = NoCall
    /\ UNCHANGED <<_bikes, objs, uuids, clock, returned, hist, main>>

NextSteps ==
    \/ StepsAdd
    \/ RentBike_find_by_id
    \/ RentBike_rent
    \/ RentBike_send_notification
    \/ RentBike_save
    \/ RentBike_return
    \/ ReturnBike_find_by_id
    \/ ReturnBike_return_bike
    \/ ReturnBike_save
    \/ ReturnBike_print
    \/ ReturnBike_return
    \/ Tick

SpecSteps == Init /\ [][NextSteps]_vars

----------------------------------------------------------------------------
(* main(): the usage example. Its frame holds the statement it is at (pc),
   the list bikes_data, the list bike_ids and the lines printed so far (out).
   An exception that a call raises is not caught: main stops where it is *)

\* the list literal of main
bikes_data ==
    <<BikeData({"type", "model", "price_per_hour"},
               "mountain", "Trek Marlin", 10, 0),
      BikeData({"type", "model", "price_per_hour"},
               "road", "Specialized Allez", 12, 0),
      BikeData(DataKeys, "electric", "Rad Power", 15, 500),
      BikeData(DataKeys, "water bike", "Ris Power", 30, 300)>>

\* the lists main is run over: the entries of bikes_data in any order, and
\* the lists that leave one entry out
MainInputs ==
    UNION {{[i \in 1 .. n |-> bikes_data[p[i]]] :
               p \in {q \in [1 .. n -> DOMAIN bikes_data] :
                         \A i, j \in 1 .. n : q[i] = q[j] => i = j}} :
           n \in (Len(bikes_data) - 1) .. Len(bikes_data)}

\* get_description of the three classes: the parts of the string
get_description(b) ==
    [label |-> CASE b.class = "MountainBike" -> "Mountain Bike"
                 [] b.class = "RoadBike" -> "Road Bike"
                 [] b.class = "ElectricBike" -> "Electric Bike",
     model |-> b.model,
     price_per_hour |-> b.price_per_hour,
     battery_capacity |-> IF b.class = "ElectricBike"
                          THEN Some(b.battery_capacity) ELSE None]

\* a line of the output: what it reports and the value it shows
Line(kind, description, notification, cents) ==
    [kind |-> kind, description |-> description,
     notification |-> notification, cents |-> cents]

\* the lines the notifier prints for the notifications of a call
NotificationLines(notifications) ==
    [i \in DOMAIN notifications |->
        Line("Notification", None, Some(notifications[i]), None)]

InitMain ==
    /\ _bikes = <<>>
    /\ objs = <<>>
    /\ uuids = 0
    /\ clock = 0
    /\ returned = {}
    /\ hist = NoHistory
    /\ call = NoCall
    /\ main \in {[pc |-> "add", bikes_data |-> d, bike_ids |-> <<>>,
                  out |-> <<>>] : d \in MainInputs}
    /\ lastOp = Report("init", "", 0, "", <<>>, None, None, NoError,
                       <<>>, None, None)

\* one round of the loop: bike_id = service.add_bike(data), append, print
MainAdd ==
    /\ main.pc = "add"
    /\ add_bike(main.bikes_data[Len(main.bike_ids) + 1])
    /\ main' =
          IF lastOp'.raised # NoError
          THEN [main EXCEPT !.pc = "raised"]
          ELSE LET bike_id == lastOp'.ret_id[1]
                   bike == find_by_id(_bikes', bike_id)
               IN  [main EXCEPT
                      !.bike_ids = Append(@, bike_id),
                      !.out = Append(@, Line("Added",
                                    Some(get_description(objs'[bike[1]])),
                                    None, None)),
                      !.pc = IF Len(main.bike_ids) + 1 = Len(main.bikes_data)
                             THEN "rent_1" ELSE "add"]
    /\ UNCHANGED <<hist, call>>

\* service.rent_bike(bike_ids[0], "customer_123")
MainRentFirst ==
    /\ main.pc = "rent_1"
    /\ rent_bike(EmailNotificationService, main.bike_ids[1], "customer_123")
    /\ main' = [main EXCEPT
                  !.pc = "rent_2",
                  !.out = Append(@, Line("Renting bikes...", None, None, None))
                             \o NotificationLines(lastOp'.notifications)]
    /\ UNCHANGED <<hist, call>>

\* service.rent_bike(bike_ids[1], "customer_456")
MainRentSecond ==
    /\ main.pc = "rent_2"
    /\ rent_bike(EmailNotificationService, main.bike_ids[2], "customer_456")
    /\ main' = [main EXCEPT
                  !.pc = "list",
                  !.out = @ \o NotificationLines(lastOp'.notifications)]
    /\ UNCHANGED <<hist, call>>

\* the available bikes of repo.find_all(), one line each
MainList ==
    /\ main.pc = "list"
    /\ LET available_bikes == SelectSeq(find_all(_bikes, objs), is_available)
       IN  main' = [main EXCEPT
                      !.pc = "return",
                      !.out = Append(@, Line("Available bikes:",
                                             None, None, None))
                              \o [i \in DOMAIN available_bikes |->
                                    Line("Available",
                                         Some(get_description(
                                                  available_bikes[i])),
                                         None, None)]]
    /\ UNCHANGED <<_bikes, objs, uuids, clock, lastOp, returned, hist, call>>

\* service.return_bike(bike_ids[0])
MainReturn ==
    /\ main.pc = "return"
    /\ service_return_bike(EmailNotificationService, main.bike_ids[1])
    /\ main' = [main EXCEPT
                  !.pc = "sms",
                  !.out = Append(@, Line("Returning bike...",
                                         None, None, None))
                          \o (IF lastOp'.printed = None THEN <<>>
                              ELSE <<Line("Cost", None, None,
                                          lastOp'.printed)>>)]
    /\ UNCHANGED <<hist, call>>

\* sms_service.rent_bike(bike_ids[0], "customer_789")
MainRentAgain ==
    /\ main.pc = "sms"
    /\ rent_bike(SMSNotificationService, main.bike_ids[1], "customer_789")
    /\ main' = [main EXCEPT
                  !.pc = "done",
                  !.out = Append(@, Line("Switching to SMS notifications...",
                                         None, None, None))
                          \o NotificationLines(lastOp'.notifications)]
    /\ UNCHANGED <<hist, call>>

\* time passes while main runs
MainTick == main.pc \notin {"done", "raised"} /\ Tick

NextMain ==
    \/ MainAdd
    \/ MainRentFirst
    \/ MainRentSecond
    \/ MainList
    \/ MainReturn
    \/ MainRentAgain
    \/ MainTick

SpecMain == InitMain /\ [][NextMain]_vars

----------------------------------------------------------------------------
TypeOK ==
    /\ DOMAIN _bikes \subseteq DOMAIN objs
    /\ DOMAIN objs \subseteq 1 .. uuids
    /\ uuids \in Nat
    /\ clock \in 0 .. MaxClock

----------------------------------------------------------------------------
(* Properties *)

\* this step is a call of the operation op (time does not pass during a call)
Calls(op) == lastOp'.op = op /\ clock' = clock

\* the store holds a record under bike_id
InStore(bike_id) == bike_id \in DOMAIN _bikes

\* the store and the records it holds are as before the step
StoreUnchanged == _bikes' = _bikes /\ objs' = objs

\* C1: every bike record in the catalog store has a rental-start timestamp
\* set if and only if its status is Rented.
C1_StartTimeIffRented ==
    \A k \in DOMAIN _bikes :
        (objs[_bikes[k]].rental_start_time # None)
            <=> (objs[_bikes[k]].status = RENTED)

\* a bike has been rented and returned while another one is still rented
C1_Witness ==
    /\ lastOp.op = "return_bike"
    /\ lastOp.cost # None
    /\ lastOp.cost[1].den = SecondsPerHour
    /\ \E k \in DOMAIN _bikes : objs[_bikes[k]].status = RENTED
    /\ \E k \in DOMAIN _bikes : objs[_bikes[k]].status = AVAILABLE

\* C2: rent_bike on a bike that is in the store with status Available
\* returns true, leaves the stored record Rented (is_available false) with
\* the time of the call as its start time, and sends exactly one
\* notification, for that customer and that bike.
C2_RentAvailable ==
    [][(/\ Calls("rent_bike")
        /\ InStore(lastOp'.bike_id)
        /\ objs[_bikes[lastOp'.bike_id]].status = AVAILABLE)
       => (/\ lastOp'.ret = Some(TRUE)
           /\ lastOp'.raised = NoError
           /\ lastOp'.bike_id \in DOMAIN _bikes'
           /\ objs'[_bikes'[lastOp'.bike_id]].status = RENTED
           /\ ~ is_available(objs'[_bikes'[lastOp'.bike_id]])
           /\ objs'[_bikes'[lastOp'.bike_id]].rental_start_time = Some(clock)
           /\ lastOp'.notifications =
                  <<[service |-> lastOp'.service,
                     customer_id |-> lastOp'.customer_id,
                     bike_id |-> lastOp'.bike_id]>>)]_vars

\* an Available bike has just been rented, some time into the run
C2_Witness ==
    /\ lastOp.op = "rent_bike"
    /\ lastOp.ret = Some(TRUE)
    /\ lastOp.service = SMSNotificationService
    /\ lastOp.customer_id = "customer_456"
    /\ InStore(lastOp.bike_id)
    /\ objs[_bikes[lastOp.bike_id]].rental_start_time = Some(clock)
    /\ clock > 0

\* C3: rent_bike on a bike whose status is already Rented returns false,
\* sends no notification and leaves the store unchanged: the status stays
\* Rented and the start time is the one of the earlier rent.
C3_RentRented ==
    [][(/\ Calls("rent_bike")
        /\ InStore(lastOp'.bike_id)
        /\ objs[_bikes[lastOp'.bike_id]].status = RENTED)
       => (/\ lastOp'.ret = Some(FALSE)
           /\ lastOp'.raised = NoError
           /\ lastOp'.notifications = <<>>
           /\ StoreUnchanged
           /\ objs'[_bikes'[lastOp'.bike_id]].status = RENTED
           /\ objs'[_bikes'[lastOp'.bike_id]].rental_start_time
                  = objs[_bikes[lastOp'.bike_id]].rental_start_time)]_vars

\* a rent has just been refused on a bike rented earlier
C3_Witness ==
    /\ lastOp.op = "rent_bike"
    /\ lastOp.ret = Some(FALSE)
    /\ InStore(lastOp.bike_id)
    /\ objs[_bikes[lastOp.bike_id]].status = RENTED
    /\ objs[_bikes[lastOp.bike_id]].rental_start_time # None
    /\ objs[_bikes[lastOp.bike_id]].rental_start_time[1] < clock

\* C4: return_bike on a Rented bike that was rented at time s, called when
\* the clock reads now, reports cost = ((now - s) / 3600) * hourly price,
\* sets the status to Available and clears the start time; a bike at 10 per
\* hour returned 2 hours after it was rented costs 20 (printed as 20.00).
C4_ReturnCost ==
    [][(/\ Calls("return_bike")
        /\ InStore(lastOp'.bike_id)
        /\ objs[_bikes[lastOp'.bike_id]].status = RENTED
        /\ objs[_bikes[lastOp'.bike_id]].rental_start_time # None)
       => LET before == objs[_bikes[lastOp'.bike_id]]
              s == before.rental_start_time[1]
              now == clock
          IN  /\ lastOp'.ret = Some(TRUE)
              /\ lastOp'.cost # None
              /\ lastOp'.cost[1].den > 0
              /\ lastOp'.cost[1].num * SecondsPerHour
                     = (now - s) * before.price_per_hour * lastOp'.cost[1].den
              /\ lastOp'.bike_id \in DOMAIN _bikes'
              /\ objs'[_bikes'[lastOp'.bike_id]].status = AVAILABLE
              /\ objs'[_bikes'[lastOp'.bike_id]].rental_start_time = None
              /\ (before.price_per_hour = 10 /\ now - s = 2 * SecondsPerHour)
                     => (/\ lastOp'.cost[1].num = 20 * lastOp'.cost[1].den
                         /\ lastOp'.printed = Some(2000))]_vars

\* a bike at 10 per hour has just been returned 2 hours after it was rented
C4_Witness ==
    /\ lastOp.op = "return_bike"
    /\ lastOp.ret = Some(TRUE)
    /\ lastOp.cost # None
    /\ lastOp.cost[1].num = 20 * lastOp.cost[1].den
    /\ lastOp.printed = Some(2000)
    /\ InStore(lastOp.bike_id)
    /\ objs[_bikes[lastOp.bike_id]].price_per_hour = 10
    /\ objs[_bikes[lastOp.bike_id]].status = AVAILABLE

\* C5: return_bike returns true for every bike in the store; when the bike
\* is not Rented the cost is zero and the store is unchanged, so a
\* return_bike that follows a return_bike of the same bike changes nothing.
C5_ReturnIdempotent ==
    [][(Calls("return_bike") /\ InStore(lastOp'.bike_id))
       => (/\ lastOp'.ret = Some(TRUE)
           /\ lastOp'.raised = NoError
           /\ (objs[_bikes[lastOp'.bike_id]].status # RENTED)
                 => (/\ lastOp'.cost # None
                     /\ lastOp'.cost[1].num = 0
                     /\ lastOp'.printed = Some(0)
                     /\ StoreUnchanged)
           /\ (lastOp.op = "return_bike" /\ lastOp.bike_id = lastOp'.bike_id)
                 => StoreUnchanged)]_vars

\* a bike that was not rented has just been returned
C5_Witness ==
    /\ lastOp.op = "return_bike"
    /\ lastOp.ret = Some(TRUE)
    /\ lastOp.cost = Some(Zero)
    /\ lastOp.service = SMSNotificationService
    /\ InStore(lastOp.bike_id)
    /\ objs[_bikes[lastOp.bike_id]].status = AVAILABLE
    /\ clock > 0

\* C6: rent_bike and return_bike with an identifier that is not in the store
\* return false, raise nothing, send no notification, report no cost and
\* leave the store unchanged.
C6_UnknownId ==
    [][((Calls("rent_bike") \/ Calls("return_bike"))
        /\ ~ InStore(lastOp'.bike_id))
       => (/\ lastOp'.ret = Some(FALSE)
           /\ lastOp'.raised = NoError
           /\ lastOp'.notifications = <<>>
           /\ lastOp'.cost = None
           /\ lastOp'.printed = None
           /\ StoreUnchanged)]_vars

\* a rent has just been refused for the identifier of a deleted bike while
\* the store holds another bike
C6_Witness ==
    /\ lastOp.op = "rent_bike"
    /\ lastOp.ret = Some(FALSE)
    /\ lastOp.bike_id \in returned
    /\ ~ InStore(lastOp.bike_id)
    /\ _bikes # <<>>

\* C7: add_bike with a type tag other than mountain, road and electric
\* raises the unknown-type error and leaves the store unchanged, whatever
\* other fields the data carries.
C7_UnknownType ==
    [][(/\ Calls("add_bike")
        /\ "type" \in DOMAIN lastOp'.bike_data
        /\ lastOp'.bike_data["type"][1] \notin {"mountain", "road", "electric"})
       => (/\ lastOp'.raised = ValueError
           /\ lastOp'.ret_id = None
           /\ StoreUnchanged
           /\ Cardinality(DOMAIN _bikes') = Cardinality(DOMAIN _bikes)
           /\ uuids' = uuids)]_vars

\* an unknown tag has just been refused in data that carries no other field
C7_Witness ==
    /\ lastOp.op = "add_bike"
    /\ lastOp.raised = ValueError
    /\ DOMAIN lastOp.bike_data = {"type"}
    /\ _bikes # <<>>

\* C8: for every supported type tag with all required fields present,
\* add_bike returns an identifier that no earlier add_bike returned, the
\* record stored under it is of the variant named by the tag (electric with
\* its battery capacity), Available and without start time, and the store
\* grows by exactly that record.
C8_AddBike ==
    [][(/\ Calls("add_bike")
        /\ {"type", "model", "price_per_hour"} \subseteq DOMAIN lastOp'.bike_data
        /\ lastOp'.bike_data["type"][1] \in {"mountain", "road", "electric"}
        /\ (lastOp'.bike_data["type"][1] = "electric")
              => ("battery_capacity" \in DOMAIN lastOp'.bike_data))
       => LET d == lastOp'.bike_data
              tag == d["type"][1]
          IN  /\ lastOp'.raised = NoError
              /\ lastOp'.ret_id # None
              /\ lastOp'.ret_id[1] \notin returned
              /\ lastOp'.ret_id[1] \notin DOMAIN _bikes
              /\ DOMAIN _bikes' = DOMAIN _bikes \cup {lastOp'.ret_id[1]}
              /\ Cardinality(DOMAIN _bikes') = Cardinality(DOMAIN _bikes) + 1
              /\ \A k \in DOMAIN _bikes : objs'[_bikes'[k]] = objs[_bikes[k]]
              /\ LET b == objs'[_bikes'[lastOp'.ret_id[1]]] IN
                  /\ b.id = lastOp'.ret_id[1]
                  /\ b.class = (CASE tag = "mountain" -> "MountainBike"
                                  [] tag = "road" -> "RoadBike"
                                  [] tag = "electric" -> "ElectricBike")
                  /\ b.model = d["model"][1]
                  /\ b.price_per_hour = d["price_per_hour"][1]
                  /\ b.status = AVAILABLE
                  /\ b.rental_start_time = None
                  /\ ("battery_capacity" \in DOMAIN b) <=> (tag = "electric")
                  /\ (tag = "electric")
                        => (b.battery_capacity = d["battery_capacity"][1])]_vars

\* a road bike has just been added after the first bike, which is rented
C8_Witness ==
    /\ lastOp.op = "add_bike"
    /\ lastOp.ret_id = Some(2)
    /\ returned = {1, 2}
    /\ InStore(1) /\ InStore(2)
    /\ objs[_bikes[1]].status = RENTED
    /\ objs[_bikes[2]].class = "RoadBike"

\* C9: add_bike whose data lacks a field required for the requested type
\* fails with a named MissingField condition, and no record is added.
C9_MissingField ==
    [][(/\ Calls("add_bike")
        /\ "type" \in DOMAIN lastOp'.bike_data
        /\ lastOp'.bike_data["type"][1] \in {"mountain", "road", "electric"}
        /\ \/ "model" \notin DOMAIN lastOp'.bike_data
           \/ "price_per_hour" \notin DOMAIN lastOp'.bike_data
           \/ /\ lastOp'.bike_data["type"][1] = "electric"
              /\ "battery_capacity" \notin DOMAIN lastOp'.bike_data)
       => (/\ lastOp'.raised = "MissingField"
           /\ lastOp'.ret_id = None
           /\ StoreUnchanged)]_vars

\* C10: delete returns true exactly when the identifier was in the store;
\* afterwards find_by_id finds nothing under it and every other record is
\* unchanged; when it was absent the store is unchanged.
C10_Delete ==
    [][Calls("delete")
       => (/\ lastOp'.ret = Some(InStore(lastOp'.bike_id))
           /\ lastOp'.raised = NoError
           /\ lastOp'.bike_id \notin DOMAIN _bikes'
           /\ find_by_id(_bikes', lastOp'.bike_id) = None
           /\ DOMAIN _bikes' = DOMAIN _bikes \ {lastOp'.bike_id}
           /\ \A k \in DOMAIN _bikes' : objs'[_bikes'[k]] = objs[_bikes[k]]
           /\ (~ InStore(lastOp'.bike_id)) => StoreUnchanged)]_vars

\* a rented bike has just been deleted and the store still holds the other
C10_Witness ==
    /\ lastOp.op = "delete"
    /\ lastOp.ret = Some(TRUE)
    /\ ~ InStore(lastOp.bike_id)
    /\ \E k \in DOMAIN _bikes : objs[_bikes[k]].status = RENTED

\* C11: after any sequence of additions and deletions find_all returns
\* exactly the records added and not deleted since, each once, whatever the
\* order of the additions; three additions and one deletion leave two.
C11_FindAll ==
    LET all == find_all(_bikes, objs) IN
    /\ {all[i].id : i \in DOMAIN all} = hist.live
    /\ Len(all) = Cardinality(hist.live)
    /\ \A i, j \in DOMAIN all : (all[i].id = all[j].id) => (i = j)
    /\ (Cardinality(returned) = 3 /\ Cardinality(returned \ hist.live) = 1)
          => (Len(all) = 2)

\* three bikes were added, a road bike before a mountain bike, and the
\* second has just been deleted: find_all lists the first and the third
C11_Witness ==
    /\ returned = {1, 2, 3}
    /\ lastOp.op = "delete"
    /\ lastOp.ret = Some(TRUE)
    /\ lastOp.bike_id = 2
    /\ Len(find_all(_bikes, objs)) = 2
    /\ find_all(_bikes, objs)[1].id = 1
    /\ find_all(_bikes, objs)[1].class = "RoadBike"
    /\ find_all(_bikes, objs)[2].id = 3
    /\ find_all(_bikes, objs)[2].class = "MountainBike"

\* C12: no sequence of add_bike, rent_bike, return_bike and delete calls
\* puts a record into status Maintenance: every record in the store is
\* Available or Rented.
C12_NoMaintenance ==
    \A k \in DOMAIN _bikes :
        /\ objs[_bikes[k]].status # MAINTENANCE
        /\ objs[_bikes[k]].status \in {AVAILABLE, RENTED}

\* late in the run a bike has just been rented while another record of the
\* store is Available
C12_Witness ==
    /\ lastOp.op = "rent_bike"
    /\ lastOp.ret = Some(TRUE)
    /\ clock = MaxClock
    /\ InStore(lastOp.bike_id)
    /\ objs[_bikes[lastOp.bike_id]].rental_start_time = Some(MaxClock)
    /\ \E k \in DOMAIN _bikes : objs[_bikes[k]].status = AVAILABLE

\* C18: rent_bike and return_bike never change the set of identifiers in
\* the store, never change a bike's identifier, model, hourly price or
\* variant payload, and never change the status or start time of a bike
\* other than the one named by bike_id.
C18_RentReturnFrame ==
    [][(Calls("rent_bike") \/ Calls("return_bike"))
       => (/\ DOMAIN _bikes' = DOMAIN _bikes
           /\ \A k \in DOMAIN _bikes :
                 LET a == objs[_bikes[k]]
                     b == objs'[_bikes'[k]]
                 IN  /\ b.id = a.id
                     /\ b.id = k
                     /\ b.class = a.class
                     /\ b.model = a.model
                     /\ b.price_per_hour = a.price_per_hour
                     /\ DOMAIN b = DOMAIN a
                     /\ ("battery_capacity" \in DOMAIN a)
                           => (b.battery_capacity = a.battery_capacity)
                     /\ (k # lastOp'.bike_id)
                           => (/\ b.status = a.status
                               /\ b.rental_start_time = a.rental_start_time))]_vars

\* an electric bike has just been returned at a cost while the other bike
\* is still rented
C18_Witness ==
    /\ lastOp.op = "return_bike"
    /\ lastOp.cost # None
    /\ lastOp.cost[1].num > 0
    /\ InStore(lastOp.bike_id)
    /\ objs[_bikes[lastOp.bike_id]].class = "ElectricBike"
    /\ objs[_bikes[lastOp.bike_id]].battery_capacity = 500
    /\ \E k \in DOMAIN _bikes :
          k # lastOp.bike_id /\ objs[_bikes[k]].status = RENTED

\* C19: add_bike with data that carries no type tag does not raise the
\* unknown-type error: with model and hourly price present it constructs and
\* persists a mountain bike.
C19_DefaultMountain ==
    [][(/\ Calls("add_bike")
        /\ "type" \notin DOMAIN lastOp'.bike_data
        /\ {"model", "price_per_hour"} \subseteq DOMAIN lastOp'.bike_data)
       => (/\ lastOp'.raised # ValueError
           /\ lastOp'.raised = NoError
           /\ lastOp'.ret_id # None
           /\ lastOp'.ret_id[1] \notin DOMAIN _bikes
           /\ lastOp'.ret_id[1] \in DOMAIN _bikes'
           /\ LET b == objs'[_bikes'[lastOp'.ret_id[1]]] IN
               /\ b.class = "MountainBike"
               /\ b.id = lastOp'.ret_id[1]
               /\ b.model = lastOp'.bike_data["model"][1]
               /\ b.price_per_hour = lastOp'.bike_data["price_per_hour"][1]
               /\ b.status = AVAILABLE
               /\ "battery_capacity" \notin DOMAIN b)]_vars

\* data without a type tag (but with a battery capacity) has just been added
\* as the second bike, and the store holds a mountain bike for it
C19_Witness ==
    /\ lastOp.op = "add_bike"
    /\ DOMAIN lastOp.bike_data = {"model", "price_per_hour", "battery_capacity"}
    /\ lastOp.ret_id = Some(2)
    /\ InStore(2)
    /\ objs[_bikes[2]].class = "MountainBike"

\* the identifiers whose rental is open although the store no longer holds
\* a record for them
Orphaned(h, bikes) == DOMAIN h.renter \ DOMAIN bikes

\* C13: deleting a bike that is Rented succeeds and returns true; every
\* later rent_bike or return_bike for that identifier returns false and
\* reports no cost, and the rental stays open for ever.
C13_DeleteRented ==
    [][/\ (/\ Calls("delete")
           /\ InStore(lastOp'.bike_id)
           /\ objs[_bikes[lastOp'.bike_id]].status = RENTED)
          => (/\ lastOp'.ret = Some(TRUE)
              /\ lastOp'.bike_id \notin DOMAIN _bikes'
              /\ lastOp'.bike_id \in Orphaned(hist', _bikes'))
       /\ \A k \in Orphaned(hist, _bikes) :
             /\ k \in Orphaned(hist', _bikes')
             /\ ((Calls("rent_bike") \/ Calls("return_bike"))
                    /\ lastOp'.bike_id = k)
                   => (/\ lastOp'.ret = Some(FALSE)
                       /\ lastOp'.notifications = <<>>
                       /\ lastOp'.cost = None
                       /\ lastOp'.printed = None)]_vars

\* a return has just been refused for a bike that was deleted while rented
C13_Witness ==
    /\ lastOp.op = "return_bike"
    /\ lastOp.ret = Some(FALSE)
    /\ lastOp.cost = None
    /\ lastOp.bike_id \in Orphaned(hist, _bikes)
    /\ _bikes # <<>>

\* C16: a bike is never rented out twice at once: a notification is sent
\* for a bike only if every earlier notification for it was followed by a
\* return_bike that performed the Rented -> Available transition, and the
\* notifications sent are as many as the rent_bike calls that returned true.
C16_NoDoubleRent ==
    /\ [](hist.unmatched = 0)
    /\ [][\A i \in DOMAIN lastOp'.notifications :
             /\ lastOp'.notifications[i].bike_id \notin DOMAIN hist.renter
             /\ lastOp'.op = "rent_bike"
             /\ lastOp'.ret = Some(TRUE)]_vars

\* a bike has just been rented, and notified, for the second time
C16_Witness ==
    /\ hist.again
    /\ lastOp.op = "rent_bike"
    /\ lastOp.ret = Some(TRUE)
    /\ Len(lastOp.notifications) = 1
    /\ lastOp.bike_id \in DOMAIN hist.renter

\* C17: two services over the same store share the rental state: a bike
\* rented through one service cannot be rented through either until it is
\* returned, a return through either service frees it, and a rent_bike
\* invokes the notifier of its own service, and only when it returns true.
C17_SharedState ==
    [][/\ (Calls("rent_bike") /\ lastOp'.bike_id \in DOMAIN hist.renter)
          => (/\ lastOp'.ret = Some(FALSE)
              /\ lastOp'.notifications = <<>>
              /\ hist'.renter = hist.renter)
       /\ (/\ Calls("rent_bike")
           /\ InStore(lastOp'.bike_id)
           /\ lastOp'.bike_id \notin DOMAIN hist.renter)
          => (/\ lastOp'.ret = Some(TRUE)
              /\ Len(lastOp'.notifications) = 1
              /\ lastOp'.notifications[1].service = lastOp'.service
              /\ lastOp'.notifications[1].bike_id = lastOp'.bike_id)
       /\ (/\ Calls("return_bike")
           /\ InStore(lastOp'.bike_id)
           /\ lastOp'.bike_id \in DOMAIN hist.renter)
          => (/\ lastOp'.bike_id \notin DOMAIN hist'.renter
              /\ objs'[_bikes'[lastOp'.bike_id]].status = AVAILABLE)
       /\ \A i \in DOMAIN lastOp'.notifications :
             /\ lastOp'.notifications[i].service = lastOp'.service
             /\ lastOp'.ret = Some(TRUE)]_vars

\* the SMS service has just been refused a bike that the email service
\* rented out and that was not returned since
C17_Witness ==
    /\ lastOp.op = "rent_bike"
    /\ lastOp.service = SMSNotificationService
    /\ lastOp.ret = Some(FALSE)
    /\ lastOp.notifications = <<>>
    /\ InStore(lastOp.bike_id)
    /\ lastOp.bike_id \in DOMAIN hist.renter
    /\ hist.renter[lastOp.bike_id] = EmailNotificationService
    /\ hist.again

\* C14 as it is stated: during rent_bike and return_bike the repository's
\* content for the bike changes only at the save step, so that a lookup made
\* after the bike was fetched and before save has run (at the moment the
\* notifier is invoked, for one) yields the status and start time the bike
\* had before the operation.
C14_LookupBeforeSave ==
    call.pc \in {"rent_bike:184", "rent_bike:185", "return_bike:193"} =>
        LET stored == objs[_bikes[call.bike_id]] IN
        /\ stored.status = call.before[1].status
        /\ stored.rental_start_time = call.before[1].rental_start_time

\* C14 amended: the rental service works on the very object the repository
\* holds. During rent_bike and return_bike the repository's content for the
\* bike changes at the step that calls Bike.rent or Bike.return_bike and at
\* no other step, the save step leaves the repository as it is, and a lookup
\* at the moment the notifier is invoked yields the bike Rented with the
\* start time of this rental, where it was Available without a start time
\* before the operation.
C14_StoreChangesAtMutation ==
    /\ [](call.pc = "rent_bike:184" =>
            LET stored == objs[_bikes[call.bike_id]] IN
            /\ call.before[1].status = AVAILABLE
            /\ call.before[1].rental_start_time = None
            /\ stored.status = RENTED
            /\ stored.rental_start_time = call.now
            /\ call.now # None)
    /\ [][/\ (call.pc # "idle" /\ ~StoreUnchanged) =>
                call.pc \in {"rent_bike:183", "return_bike:191"}
          /\ (call.pc \in {"rent_bike:185", "return_bike:193"}
                /\ call'.pc # call.pc) => StoreUnchanged
          /\ (call.pc = "return_bike:191" /\ call'.pc = "return_bike:193"
                /\ call.before[1].status = RENTED) =>
                LET stored == objs'[_bikes'[call.bike_id]] IN
                /\ stored.status = AVAILABLE
                /\ stored.rental_start_time = None]_vars

\* the notifier is about to be invoked for a bike that was Available when it
\* was looked up an hour or more after the start, and a return has changed a
\* Rented bike before
C14_Witness ==
    /\ call.pc = "rent_bike:184"
    /\ call.before[1].status = AVAILABLE
    /\ call.now # None
    /\ call.now[1] > 0
    /\ lastOp.op = "return_bike"
    /\ lastOp.cost # None

\* the lines of the output of main that report kind
LinesOf(kind) == SelectSeq(main.out, LAMBDA line : line.kind = kind)

\* C15: main() runs through all of its steps: once main, run over its own
\* bikes_data, has stopped, it has stopped at its end, with every entry of
\* bikes_data added and its description reported, the first two bikes
\* rented with a notification each, the available bikes listed, the first
\* bike returned with its cost reported, and that bike rented again through
\* the SMS-notifying service.
C15_MainRunsThrough ==
    (main.bikes_data = bikes_data /\ main.pc \in {"done", "raised"}) =>
        /\ main.pc = "done"
        /\ Len(main.bike_ids) = Len(bikes_data)
        /\ Len(LinesOf("Added")) = Len(bikes_data)
        /\ Len(LinesOf("Notification")) = 3
        /\ Len(LinesOf("Available bikes:")) = 1
        /\ Len(LinesOf("Cost")) = 1
        /\ LinesOf("Notification")[3].notification[1].service
              = SMSNotificationService

\* main run over a list without the unknown type tag: it stops at its end
\* only, with all of its output
MainRunsThroughValid ==
    ((\A i \in DOMAIN main.bikes_data :
          AddBikeError(main.bikes_data[i]) = NoError)
       /\ main.pc \in {"done", "raised"}) =>
        /\ main.pc = "done"
        /\ Len(main.bike_ids) = Len(main.bikes_data)
        /\ Len(LinesOf("Added")) = Len(main.bikes_data)
        /\ Len(LinesOf("Notification")) = 3
        /\ Len(LinesOf("Cost")) = 1

====
